---- MODULE Spec2Model ----
(***************************************************************************)
(* Model of src/app.py: the Indian Stock PnL Analyzer.                     *)
(*                                                                         *)
(* The script is re-run top to bottom on every user action.  The model     *)
(* keeps the script's module-level names as variables and its functions    *)
(* as operators.  Floating point values (the cells of the pandas tables    *)
(* and everything derived from them) are modelled as IEEE-like numbers:    *)
(* an exact rational, NaN, +inf or -inf.                                   *)
(***************************************************************************)
EXTENDS Integers, Sequences, FiniteSets, TLC

VARIABLES selected_stock, stock_input, stock_symbol, stock, info, financials,
          analysis, insights, output, pc, fetch_calls, analyze_calls

vars == <<selected_stock, stock_input, stock_symbol, stock, info, financials,
          analysis, insights, output, pc, fetch_calls, analyze_calls>>

(***************************************************************************)
(* Bounds of the model.                                                    *)
(***************************************************************************)
MaxPeriods == 2

MaxLen == 4

(***************************************************************************)
(* Python values: None, and the float arithmetic pandas performs.          *)
(***************************************************************************)
None == [isNone |-> TRUE]

Some(x) == [isNone |-> FALSE, v |-> x]

RECURSIVE GCD(_, _)
GCD(a, b) == IF b = 0 THEN a ELSE GCD(b, a % b)

Abs(x) == IF x < 0 THEN -x ELSE x

NaN == [k |-> "nan", n |-> 0, d |-> 1]

PInf == [k |-> "pinf", n |-> 0, d |-> 1]

NInf == [k |-> "ninf", n |-> 0, d |-> 1]

\* the float n/d, d # 0, in lowest terms with a positive denominator
Fin(n, d) ==
    LET g == GCD(Abs(n), Abs(d))
        s == IF d < 0 THEN -1 ELSE 1
    IN  [k |-> "fin", n |-> (s * n) \div g, d |-> (s * d) \div g]

IsNaN(a) == a.k = "nan"

IsFin(a) == a.k = "fin"

IsZero(a) == a.k = "fin" /\ a.n = 0

\* a > b on floats: every comparison with NaN is False
NumGt(a, b) ==
    CASE a.k = "nan" \/ b.k = "nan" -> FALSE
      [] a.k = "pinf" -> b.k # "pinf"
      [] a.k = "ninf" -> FALSE
      [] b.k = "pinf" -> FALSE
      [] b.k = "ninf" -> TRUE
      [] OTHER -> a.n * b.d > b.n * a.d

NumNeg(a) ==
    CASE a.k = "nan" -> NaN
      [] a.k = "pinf" -> NInf
      [] a.k = "ninf" -> PInf
      [] OTHER -> Fin(-a.n, a.d)

NumAdd(a, b) ==
    CASE a.k = "nan" \/ b.k = "nan" -> NaN
      [] a.k = "fin" /\ b.k = "fin" -> Fin(a.n * b.d + b.n * a.d, a.d * b.d)
      [] a.k = "fin" -> b
      [] b.k = "fin" -> a
      [] a.k = b.k -> a
      [] OTHER -> NaN

NumSub(a, b) == NumAdd(a, NumNeg(b))

Sign(a) ==
    CASE a.k = "pinf" -> 1
      [] a.k = "ninf" -> -1
      [] OTHER -> IF a.n > 0 THEN 1 ELSE IF a.n < 0 THEN -1 ELSE 0

NumMul(a, b) ==
    CASE a.k = "nan" \/ b.k = "nan" -> NaN
      [] a.k = "fin" /\ b.k = "fin" -> Fin(a.n * b.n, a.d * b.d)
      [] Sign(a) * Sign(b) > 0 -> PInf
      [] Sign(a) * Sign(b) < 0 -> NInf
      [] OTHER -> NaN

\* numpy float division: x/0 is +-inf, 0/0 is NaN, nothing is raised
NumDiv(a, b) ==
    CASE a.k = "nan" \/ b.k = "nan" -> NaN
      [] a.k = "fin" /\ b.k = "fin" ->
            IF b.n # 0 THEN Fin(a.n * b.d, a.d * b.n)
            ELSE IF a.n > 0 THEN PInf
            ELSE IF a.n < 0 THEN NInf
            ELSE NaN
      [] a.k = "fin" -> Fin(0, 1)
      [] b.k = "fin" -> IF Sign(b) < 0 THEN NumNeg(a) ELSE a
      [] OTHER -> NaN

Int2Num(i) == Fin(i, 1)

Hundred == Int2Num(100)

(***************************************************************************)
(* pandas objects.  A Series is a sequence of floats, newest period first  *)
(* (the order yfinance returns).  A DataFrame is a number of period        *)
(* columns and a row (Series) per line item.  A dict is a function from    *)
(* its keys.                                                               *)
(***************************************************************************)
EmptyDict == [key \in {} |-> None]

\* dict.get(key, default)
Get(dict, key, default) == IF key \in DOMAIN dict THEN dict[key] ELSE default

EmptyFrame == [n |-> 0, rows |-> EmptyDict]

\* DataFrame.empty
IsEmptyFrame(df) == df.n = 0 \/ DOMAIN df.rows = {}

\* financials.loc[item] if item in financials.index else None
Row(df, item) == IF item \in DOMAIN df.rows THEN Some(df.rows[item]) ELSE None

\* Series.ffill(): a missing cell takes the value stored before it
RECURSIVE ffill(_)
ffill(s) ==
    IF Len(s) <= 1 THEN s
    ELSE LET head == ffill(SubSeq(s, 1, Len(s) - 1))
             last == IF IsNaN(s[Len(s)]) THEN head[Len(head)] ELSE s[Len(s)]
         IN  Append(head, last)

\* Series.pct_change(): each element against the element stored before it,
\* the first element has none.  pad: the pandas release fills missing cells
\* forward first (fill_method='pad', the default before pandas 3).
pct_change(s, pad) ==
    LET f == IF pad THEN ffill(s) ELSE s
    IN  [i \in 1..Len(s) |->
            IF i = 1 THEN NaN ELSE NumSub(NumDiv(f[i], f[i - 1]), Int2Num(1))]

\* Series.fillna(0)
fillna0(s) == [i \in 1..Len(s) |-> IF IsNaN(s[i]) THEN Int2Num(0) ELSE s[i]]

\* revenue.pct_change().fillna(0) * 100
revenue_growth(revenue, pad) ==
    LET g == fillna0(pct_change(revenue, pad))
    IN  [i \in 1..Len(g) |-> NumMul(g[i], Hundred)]

\* a margin that drops the revenue check and reports zeros instead of None
margin_zero_without_revenue(item, revenue) ==
    IF revenue.isNone
    THEN Some([i \in 1..Len(item) |-> Int2Num(0)])
    ELSE Some([i \in 1..Len(item) |->
                  NumMul(NumDiv(item[i], revenue.v[i]), Hundred)])

\* (item / revenue * 100) if revenue is not None else None
margin(item, revenue) ==
    IF revenue.isNone
    THEN None
    ELSE Some([i \in 1..Len(item) |->
                  NumMul(NumDiv(item[i], revenue.v[i]), Hundred)])

analyze_pnl_trends(fin, pad) ==
    IF fin.isNone \/ IsEmptyFrame(fin.v)
    THEN None
    ELSE
      LET revenue == Row(fin.v, "Total Revenue")
          gross_profit == Row(fin.v, "Gross Profit")
          operating_income == Row(fin.v, "Operating Income")
          net_income == Row(fin.v, "Net Income")
          a1 == IF ~revenue.isNone
                THEN ("revenue" :> revenue)
                     @@ ("revenue_growth" :> Some(revenue_growth(revenue.v, pad)))
                ELSE EmptyDict
          a2 == IF ~gross_profit.isNone
                THEN ("gross_profit" :> gross_profit)
                     @@ ("gross_margin" :> margin(gross_profit.v, revenue))
                ELSE EmptyDict
          a3 == IF ~operating_income.isNone
                THEN ("operating_income" :> operating_income)
                     @@ ("operating_margin" :> margin(operating_income.v, revenue))
                ELSE EmptyDict
          a4 == IF ~net_income.isNone
                THEN ("net_income" :> net_income)
                     @@ ("net_margin" :> margin(net_income.v, revenue))
                ELSE EmptyDict
      IN  Some(a1 @@ a2 @@ a3 @@ a4)

\* truth value of the analysis dict: None and {} are both false
Truthy(a) == ~a.isNone /\ DOMAIN a.v # {}

\* 'key' in analysis and analysis['key'] is not None
HasSeries(a, key) == key \in DOMAIN a /\ ~a[key].isNone

(***************************************************************************)
(* generate_pnl_insights.  An insight string is modelled by its bold tag,  *)
(* the words the code selects for it and the numbers it formats into it.   *)
(***************************************************************************)
Insight(tag, label, args) == [tag |-> tag, label |-> label, args |-> args]

NumAbs(a) == IF NumGt(Int2Num(0), a) THEN NumNeg(a) ELSE a

\* Series.mean(): missing values are skipped, the mean of nothing is NaN
RECURSIVE SumSkipNa(_)
SumSkipNa(s) ==
    IF s = <<>> THEN Int2Num(0)
    ELSE IF IsNaN(Head(s)) THEN SumSkipNa(Tail(s))
    ELSE NumAdd(Head(s), SumSkipNa(Tail(s)))

CountNotNa(s) == Cardinality({i \in 1..Len(s) : ~IsNaN(s[i])})

mean(s) ==
    IF CountNotNa(s) = 0 THEN NaN
    ELSE NumDiv(SumSkipNa(s), Int2Num(CountNotNa(s)))

Billion == 1000000000

Crore == 10000000

\* the profitability thresholds with >= in place of >
profitability_assessment_inclusive(net_margin) ==
    IF ~NumGt(Int2Num(15), net_margin) /\ ~IsNaN(net_margin) THEN "Excellent"
    ELSE IF ~NumGt(Int2Num(10), net_margin) /\ ~IsNaN(net_margin) THEN "Good"
    ELSE IF ~NumGt(Int2Num(5), net_margin) /\ ~IsNaN(net_margin) THEN "Moderate"
    ELSE "Low"

profitability_assessment(net_margin) ==
    IF NumGt(net_margin, Int2Num(15)) THEN "Excellent"
    ELSE IF NumGt(net_margin, Int2Num(10)) THEN "Good"
    ELSE IF NumGt(net_margin, Int2Num(5)) THEN "Moderate"
    ELSE "Low"

\* the growth thresholds with >= in place of >
growth_assessment_inclusive(avg_growth) ==
    IF ~NumGt(Int2Num(15), avg_growth) /\ ~IsNaN(avg_growth) THEN "High growth"
    ELSE IF ~NumGt(Int2Num(8), avg_growth) /\ ~IsNaN(avg_growth) THEN "Steady growth"
    ELSE IF NumGt(avg_growth, Int2Num(0)) THEN "Moderate growth"
    ELSE "Declining revenue"

growth_assessment(avg_growth) ==
    IF NumGt(avg_growth, Int2Num(15)) THEN "High growth"
    ELSE IF NumGt(avg_growth, Int2Num(8)) THEN "Steady growth"
    ELSE IF NumGt(avg_growth, Int2Num(0)) THEN "Moderate growth"
    ELSE "Declining revenue"

\* lines 174-181
revenue_insights(a) ==
    IF "revenue" \in DOMAIN a
    THEN <<Insight("Latest Annual Revenue", "",
                   <<NumDiv(a["revenue"].v[1], Int2Num(Billion))>>)>>
         \o (IF Len(a["revenue"].v) > 1
             THEN LET revenue_change == a["revenue_growth"].v[1]
                      trend == IF NumGt(revenue_change, Int2Num(0))
                               THEN "increased" ELSE "decreased"
                  IN  <<Insight("Revenue Growth", trend, <<NumAbs(revenue_change)>>)>>
             ELSE <<>>)
    ELSE <<>>

\* lines 183-193, one margin line
margin_insight(a, key, tag) ==
    IF HasSeries(a, key) THEN <<Insight(tag, "", <<a[key].v[1]>>)>> ELSE <<>>

\* lines 196-205
profitability_insight(a) ==
    IF HasSeries(a, "net_margin")
    THEN <<Insight("Profitability Assessment",
                   profitability_assessment(a["net_margin"].v[1]), <<>>)>>
    ELSE <<>>

\* lines 208-217
growth_insight(a) ==
    IF "revenue_growth" \in DOMAIN a /\ Len(a["revenue_growth"].v) > 1
    THEN <<Insight("Growth Assessment",
                   growth_assessment(mean(a["revenue_growth"].v)), <<>>)>>
    ELSE <<>>

\* lines 220-221
sector_insight(inf) == <<Insight("Industry", Get(inf, "sector", "Unknown"), <<>>)>>

\* market capitalization reported even when it is zero
market_cap_insight_unguarded(inf) ==
    LET market_cap == Get(inf, "marketCap", 0)
    IN  <<Insight("Market Capitalization", "",
                  <<NumDiv(Int2Num(market_cap), Int2Num(Crore))>>)>>

\* lines 223-226
market_cap_insight(inf) ==
    LET market_cap == Get(inf, "marketCap", 0)
    IN  IF market_cap > 0
        THEN <<Insight("Market Capitalization", "",
                       <<NumDiv(Int2Num(market_cap), Int2Num(Crore))>>)>>
        ELSE <<>>

generate_pnl_insights(a, inf) ==
    revenue_insights(a)
    \o margin_insight(a, "gross_margin", "Gross Margin")
    \o margin_insight(a, "operating_margin", "Operating Margin")
    \o margin_insight(a, "net_margin", "Net Margin")
    \o profitability_insight(a)
    \o growth_insight(a)
    \o sector_insight(inf)
    \o market_cap_insight(inf)

(***************************************************************************)
(* The input resolver, lines 24-54.  A string is a sequence of characters. *)
(***************************************************************************)
popular_stocks ==
    ("Reliance Industries" :> <<"R", "E", "L", "I", "A", "N", "C", "E", ".", "N", "S">>)
    @@ ("TCS" :> <<"T", "C", "S", ".", "N", "S">>)
    @@ ("Infosys" :> <<"I", "N", "F", "Y", ".", "N", "S">>)
    @@ ("HDFC Bank" :> <<"H", "D", "F", "C", "B", "A", "N", "K", ".", "N", "S">>)
    @@ ("ICICI Bank" :> <<"I", "C", "I", "C", "I", "B", "A", "N", "K", ".", "N", "S">>)
    @@ ("State Bank of India" :> <<"S", "B", "I", "N", ".", "N", "S">>)
    @@ ("ITC" :> <<"I", "T", "C", ".", "N", "S">>)
    @@ ("Wipro" :> <<"W", "I", "P", "R", "O", ".", "N", "S">>)
    @@ ("Bharti Airtel" :> <<"B", "H", "A", "R", "T", "I", "A", "R", "T", "L", ".", "N", "S">>)
    @@ ("Maruti Suzuki" :> <<"M", "A", "R", "U", "T", "I", ".", "N", "S">>)

\* str.upper() on one character
UpperChar(c) ==
    CASE c = "t" -> "T"
      [] c = "c" -> "C"
      [] c = "n" -> "N"
      [] c = "s" -> "S"
      [] c = "b" -> "B"
      [] c = "o" -> "O"
      [] OTHER -> c

upper(str) == [i \in 1..Len(str) |-> UpperChar(str[i])]

endswith(str, suffix) ==
    /\ Len(str) >= Len(suffix)
    /\ SubSeq(str, Len(str) - Len(suffix) + 1, Len(str)) = suffix

DotNS == <<".", "N", "S">>

DotBO == <<".", "B", "O">>

\* a suffix test that recognises the NSE suffix only
has_exchange_suffix_ns_only(sym) == endswith(sym, DotNS)

\* line 51
has_exchange_suffix(sym) == endswith(sym, DotNS) \/ endswith(sym, DotBO)

\* lines 47-54
resolve_symbol(selected, text) ==
    IF selected # ""
    THEN Some(popular_stocks[selected])
    ELSE IF text # <<>>
    THEN LET up == upper(text)
         IN  IF ~has_exchange_suffix(up) THEN Some(up \o DotNS) ELSE Some(up)
    ELSE None

(***************************************************************************)
(* Inputs of the model: what the user types and what the data source       *)
(* returns.                                                                *)
(***************************************************************************)
Chars == {"t", ".", "n", "s", "N", "S", "b", "o", "O"}

Strings == UNION {[1..len -> Chars] : len \in 0..MaxLen}

RevenueCells == {NaN, Int2Num(0), Int2Num(100), Int2Num(116), Int2Num(130), Int2Num(200)}

NetIncomeCells == {NaN, Int2Num(10), Int2Num(15), Int2Num(20)}

OtherCells == {Int2Num(40)}

\* a row of the table: not in the index, or one cell per period
RowChoices(cells, n) == {None} \cup {Some(r) : r \in [1..n -> cells]}

MkFrame(n, rev, gp, oi, ni) ==
    [n |-> n,
     rows |-> ("EBITDA" :> [i \in 1..n |-> Int2Num(40)])
              @@ (IF rev.isNone THEN EmptyDict ELSE "Total Revenue" :> rev.v)
              @@ (IF gp.isNone THEN EmptyDict ELSE "Gross Profit" :> gp.v)
              @@ (IF oi.isNone THEN EmptyDict ELSE "Operating Income" :> oi.v)
              @@ (IF ni.isNone THEN EmptyDict ELSE "Net Income" :> ni.v)]

\* what stock.financials can be: missing, empty, or a table of up to
\* MaxPeriods periods
IsFinancials(fin, revCells, netCells) ==
    \/ fin \in {None, Some(EmptyFrame)}
    \/ \E n \in 1..MaxPeriods :
         \E rev \in RowChoices(revCells, n), gp \in RowChoices(OtherCells, n),
            oi \in RowChoices(OtherCells, n), ni \in RowChoices(netCells, n) :
              fin = Some(MkFrame(n, rev, gp, oi, ni))

MkInfo(keys) ==
    [key \in keys |->
        CASE key = "sector" -> "Technology"
          [] key = "marketCap" -> 5 * Crore
          [] OTHER -> "Tata Consultancy Services"]

\* stock.info records: any of sector and marketCap may be missing,
\* marketCap may be zero
Infos ==
    {MkInfo(keys) : keys \in SUBSET {"sector", "marketCap", "longName"}}
    \cup {("marketCap" :> 0) @@ MkInfo(keys) : keys \in SUBSET {"sector"}}

RunInputs == {<<>>, <<"t", "c", "s">>, <<"t", ".", "b", "o">>}

(***************************************************************************)
(* One run of the script.                                                  *)
(***************************************************************************)
Show(items) == output' = output \o items

\* a guard that lets the run continue without a symbol
symbol_given_always(sym) == TRUE

\* line 231: if stock_symbol
symbol_given(sym) == ~sym.isNone

\* a guard that only looks at the Ticker object
fetch_usable_stock_only(stk, inf) == TRUE

\* line 235: if stock and info (None and {} are both false)
fetch_usable(stk, inf) == ~stk.isNone /\ ~inf.isNone /\ DOMAIN inf.v # {}

\* line 249: financials is not None and not financials.empty
has_financials(fin) == ~fin.isNone /\ ~IsEmptyFrame(fin.v)

\* lines 12-54: title, sidebar, symbol resolution
Start ==
    /\ pc = "start"
    /\ Show(<<"title">>)
    /\ stock_symbol' = resolve_symbol(selected_stock, stock_input)
    /\ pc' = "main"
    /\ UNCHANGED <<selected_stock, stock_input, stock, info, financials,
                   analysis, insights, fetch_calls, analyze_calls>>

\* lines 287-299: nothing entered
Guidance ==
    /\ pc = "main"
    /\ ~symbol_given(stock_symbol)
    /\ Show(<<"guidance">>)
    /\ pc' = "footer"
    /\ UNCHANGED <<selected_stock, stock_input, stock_symbol, stock, info,
                   financials, analysis, insights, fetch_calls, analyze_calls>>

\* lines 232-233 and 58-63: get_stock_info returns what the source has
FetchOk ==
    /\ pc = "main"
    /\ symbol_given(stock_symbol)
    /\ \E inf \in Infos : info' = Some(inf)
    /\ IsFinancials(financials', {Int2Num(100), Int2Num(116)}, {Int2Num(15)})
    /\ stock' = Some("Ticker")
    /\ fetch_calls' = fetch_calls + 1
    /\ pc' = "fetched"
    /\ UNCHANGED <<selected_stock, stock_input, stock_symbol, analysis,
                   insights, output, analyze_calls>>

\* lines 232-233 and 64-66: the source raises, get_stock_info reports it
FetchFail ==
    /\ pc = "main"
    /\ symbol_given(stock_symbol)
    /\ Show(<<"error: Error fetching data">>)
    /\ stock' = None
    /\ info' = None
    /\ financials' = None
    /\ fetch_calls' = fetch_calls + 1
    /\ pc' = "fetched"
    /\ UNCHANGED <<selected_stock, stock_input, stock_symbol, analysis,
                   insights, analyze_calls>>

\* lines 284-285
UnableToFetch ==
    /\ pc = "fetched"
    /\ ~fetch_usable(stock, info)
    /\ Show(<<"error: Unable to fetch stock data">>)
    /\ pc' = "footer"
    /\ UNCHANGED <<selected_stock, stock_input, stock_symbol, stock, info,
                   financials, analysis, insights, fetch_calls, analyze_calls>>

\* lines 236-246
Header ==
    /\ pc = "fetched"
    /\ fetch_usable(stock, info)
    /\ Show(<<"header", "metrics">>)
    /\ pc' = "financials"
    /\ UNCHANGED <<selected_stock, stock_input, stock_symbol, stock, info,
                   financials, analysis, insights, fetch_calls, analyze_calls>>

\* lines 249-250
Analyze ==
    /\ pc = "financials"
    /\ has_financials(financials)
    /\ \E pad \in BOOLEAN : analysis' = analyze_pnl_trends(financials, pad)
    /\ analyze_calls' = analyze_calls + 1
    /\ pc' = "analyzed"
    /\ UNCHANGED <<selected_stock, stock_input, stock_symbol, stock, info,
                   financials, insights, output, fetch_calls>>

\* lines 279-283
NoFinancials ==
    /\ pc = "financials"
    /\ ~has_financials(financials)
    /\ Show(<<"warning: No financial data available">>)
    /\ pc' = "footer"
    /\ UNCHANGED <<selected_stock, stock_input, stock_symbol, stock, info,
                   financials, analysis, insights, fetch_calls, analyze_calls>>

\* lines 252-276 and 99-168: chart, insights, table
Render ==
    /\ pc = "analyzed"
    /\ Truthy(analysis)
    /\ insights' = generate_pnl_insights(analysis.v, info.v)
    /\ Show((IF "revenue" \in DOMAIN analysis.v
             THEN <<"chart">>
             ELSE <<"warning: Insufficient financial data for visualization">>)
            \o <<"insights">>
            \o (IF "revenue" \in DOMAIN analysis.v THEN <<"table">> ELSE <<>>))
    /\ pc' = "footer"
    /\ UNCHANGED <<selected_stock, stock_input, stock_symbol, stock, info,
                   financials, analysis, fetch_calls, analyze_calls>>

\* lines 277-278
CannotAnalyze ==
    /\ pc = "analyzed"
    /\ ~Truthy(analysis)
    /\ Show(<<"warning: Unable to analyze financial data">>)
    /\ pc' = "footer"
    /\ UNCHANGED <<selected_stock, stock_input, stock_symbol, stock, info,
                   financials, analysis, insights, fetch_calls, analyze_calls>>

\* lines 301-303
Footer ==
    /\ pc = "footer"
    /\ Show(<<"footer">>)
    /\ pc' = "done"
    /\ UNCHANGED <<selected_stock, stock_input, stock_symbol, stock, info,
                   financials, analysis, insights, fetch_calls, analyze_calls>>

Init ==
    /\ selected_stock \in {""} \cup DOMAIN popular_stocks
    /\ stock_input \in RunInputs
    /\ stock_symbol = None
    /\ stock = None
    /\ info = None
    /\ financials = None
    /\ analysis = None
    /\ insights = <<>>
    /\ output = <<>>
    /\ pc = "start"
    /\ fetch_calls = 0
    /\ analyze_calls = 0

Next ==
    \/ Start
    \/ Guidance
    \/ FetchOk
    \/ FetchFail
    \/ UnableToFetch
    \/ Header
    \/ Analyze
    \/ NoFinancials
    \/ Render
    \/ CannotAnalyze
    \/ Footer

Spec == Init /\ [][Next]_vars

(***************************************************************************)
(* The resolver on every short input string.                               *)
(***************************************************************************)
InitResolve ==
    /\ selected_stock \in {"", "TCS", "Wipro"}
    /\ stock_input \in Strings
    /\ stock_symbol = None
    /\ stock = None
    /\ info = None
    /\ financials = None
    /\ analysis = None
    /\ insights = <<>>
    /\ output = <<>>
    /\ pc = "start"
    /\ fetch_calls = 0
    /\ analyze_calls = 0

NextResolve == Start

SpecResolve == InitResolve /\ [][NextResolve]_vars

(***************************************************************************)
(* The metrics engine and the insight generator on every small table: the  *)
(* run from the point where the fetch has returned and the header is       *)
(* shown.                                                                  *)
(***************************************************************************)
InitPnL ==
    /\ selected_stock = "TCS"
    /\ stock_input = <<>>
    /\ stock_symbol = Some(popular_stocks["TCS"])
    /\ stock = Some("Ticker")
    /\ info \in {Some(("longName" :> "Tata Consultancy Services") @@ inf) : inf \in Infos}
    /\ IsFinancials(financials, RevenueCells, NetIncomeCells)
    /\ analysis = None
    /\ insights = <<>>
    /\ output = <<"title", "header", "metrics">>
    /\ pc = "financials"
    /\ fetch_calls = 1
    /\ analyze_calls = 0

NextPnL ==
    \/ Analyze
    \/ NoFinancials
    \/ Render
    \/ CannotAnalyze

SpecPnL == InitPnL /\ [][NextPnL]_vars

(***************************************************************************)
(* Properties.                                                             *)
(***************************************************************************)
Shown(item) == \E i \in DOMAIN output : output[i] = item

TagsOf(seq) == [i \in 1..Len(seq) |-> seq[i].tag]

WithTag(tag) == {i \in DOMAIN insights : insights[i].tag = tag}

\* a <= b on floats
NumLe(a, b) == ~IsNaN(a) /\ ~IsNaN(b) /\ ~NumGt(a, b)

\* analyze_pnl_trends has returned a dict for the fetched table
Analyzed == analyze_calls > 0 /\ ~analysis.isNone

\* generate_pnl_insights has returned and its result is displayed
InsightsShown == Shown("insights")

HasRevenueRow == has_financials(financials) /\ "Total Revenue" \in DOMAIN financials.v.rows

RevenueRow == financials.v.rows["Total Revenue"]

\* growth of each period against its older neighbour, the oldest period 0
GrowthAgainstOlder(rev) ==
    [i \in 1..Len(rev) |->
        IF i = Len(rev) THEN Int2Num(0)
        ELSE NumMul(NumDiv(NumSub(rev[i], rev[i + 1]), rev[i + 1]), Hundred)]

\* C1: for a table with a Total Revenue row (newest first, every cell a
\* non-zero number) the revenue-growth series has the length of the row,
\* growth[i] = (revenue[i] - revenue[i+1]) / revenue[i+1] * 100 for every
\* period with an older neighbour, and the oldest period's growth is 0.
C1_GrowthAgainstOlderPeriod ==
    (Analyzed /\ HasRevenueRow
       /\ \A i \in DOMAIN RevenueRow : IsFin(RevenueRow[i]) /\ ~IsZero(RevenueRow[i]))
    => /\ "revenue_growth" \in DOMAIN analysis.v
       /\ analysis.v["revenue_growth"] = Some(GrowthAgainstOlder(RevenueRow))

MarginKeys == {"gross_margin", "operating_margin", "net_margin"}

DerivedTags ==
    {"Latest Annual Revenue", "Revenue Growth", "Gross Margin", "Operating Margin",
     "Net Margin", "Profitability Assessment", "Growth Assessment"}

\* C2: for a non-empty table without a Total Revenue row, whatever other
\* rows it has, the result has no revenue growth, every margin is absent
\* (no key, or None: never a series of zeros or of partial values), and no
\* margin, growth or bucket insight is emitted.
C2_NoRevenueNoDerivedSeries ==
    (analyze_calls > 0 /\ has_financials(financials) /\ ~HasRevenueRow)
    => /\ ~analysis.isNone
       /\ "revenue" \notin DOMAIN analysis.v
       /\ "revenue_growth" \notin DOMAIN analysis.v
       /\ \A key \in MarginKeys : ~HasSeries(analysis.v, key)
       /\ \A i \in DOMAIN insights : insights[i].tag \notin DerivedTags

\* C2 witness: insights were generated from a table that has Net Income and
\* Gross Profit but no Total Revenue
C2_Witness ==
    /\ InsightsShown
    /\ ~HasRevenueRow
    /\ "Net Income" \in DOMAIN financials.v.rows
    /\ "Gross Profit" \in DOMAIN financials.v.rows
    /\ "net_margin" \in DOMAIN analysis.v
    /\ insights # <<>>

\* C3: for every period whose revenue is zero or missing, each margin of
\* that period is undefined (NaN, not a number and not an infinity), and
\* when that period is the latest one no profitability bucket is emitted.
C3_ZeroRevenueMarginUndefined ==
    (Analyzed /\ HasRevenueRow)
    => \A i \in DOMAIN RevenueRow :
          (IsZero(RevenueRow[i]) \/ IsNaN(RevenueRow[i]))
          => /\ \A key \in MarginKeys :
                  HasSeries(analysis.v, key) => IsNaN(analysis.v[key].v[i])
             /\ i = 1 => WithTag("Profitability Assessment") = {}

LatestNetMargin == analysis.v["net_margin"].v[1]

\* C4: when the net margin series is present exactly one profitability
\* insight is emitted, chosen from the latest net margin m: m > 15
\* Excellent, 10 < m <= 15 Good, 5 < m <= 10 Moderate, m <= 5 Low; m = 15
\* is Good.
C4_ProfitabilityBucket ==
    (InsightsShown /\ HasSeries(analysis.v, "net_margin"))
    => /\ Cardinality(WithTag("Profitability Assessment")) = 1
       /\ \A i \in WithTag("Profitability Assessment") :
            LET m == LatestNetMargin
                label == insights[i].label
            IN  /\ NumGt(m, Int2Num(15)) => label = "Excellent"
                /\ (NumGt(m, Int2Num(10)) /\ NumLe(m, Int2Num(15))) => label = "Good"
                /\ (NumGt(m, Int2Num(5)) /\ NumLe(m, Int2Num(10))) => label = "Moderate"
                /\ NumLe(m, Int2Num(5)) => label = "Low"
                /\ m = Int2Num(15) => label = "Good"

\* C4 witness: the latest net margin is exactly 15 and the bucket is Good
C4_Witness ==
    /\ InsightsShown
    /\ HasSeries(analysis.v, "net_margin")
    /\ LatestNetMargin = Int2Num(15)
    /\ \E i \in DOMAIN insights :
          insights[i].tag = "Profitability Assessment" /\ insights[i].label = "Good"

GrowthLabelOk(g, label) ==
    /\ NumGt(g, Int2Num(15)) => label = "High growth"
    /\ (NumGt(g, Int2Num(8)) /\ NumLe(g, Int2Num(15))) => label = "Steady growth"
    /\ (NumGt(g, Int2Num(0)) /\ NumLe(g, Int2Num(8))) => label = "Moderate growth"
    /\ NumLe(g, Int2Num(0)) => label = "Declining revenue"

\* C5 as stated: whenever a revenue-growth series is available, for any
\* number of periods including one, exactly one growth insight is emitted,
\* determined by the mean g of the growth values: g > 15 High, 8 < g <= 15
\* Steady, 0 < g <= 8 Moderate, g <= 0 Declining.
C5_GrowthBucketAnyLength ==
    (InsightsShown /\ "revenue_growth" \in DOMAIN analysis.v)
    => /\ Cardinality(WithTag("Growth Assessment")) = 1
       /\ \A i \in WithTag("Growth Assessment") :
            GrowthLabelOk(mean(analysis.v["revenue_growth"].v), insights[i].label)

\* C5 amended: whenever a revenue-growth series of more than one period is
\* available exactly one growth insight is emitted, determined by the mean
\* g of the growth values with the thresholds above; for a single period
\* no growth insight is emitted.
C5_GrowthBucketMultiPeriod ==
    (InsightsShown /\ "revenue_growth" \in DOMAIN analysis.v)
    => IF Len(analysis.v["revenue_growth"].v) > 1
       THEN /\ Cardinality(WithTag("Growth Assessment")) = 1
            /\ \A i \in WithTag("Growth Assessment") :
                 GrowthLabelOk(mean(analysis.v["revenue_growth"].v), insights[i].label)
       ELSE WithTag("Growth Assessment") = {}

\* C5 witness: two periods whose mean growth is exactly 15, bucket Steady
C5_Witness ==
    /\ InsightsShown
    /\ "revenue_growth" \in DOMAIN analysis.v
    /\ Len(analysis.v["revenue_growth"].v) > 1
    /\ mean(analysis.v["revenue_growth"].v) = Int2Num(15)
    /\ \E i \in DOMAIN insights :
          insights[i].tag = "Growth Assessment" /\ insights[i].label = "Steady growth"

Keep(cond, tag) == IF cond THEN <<tag>> ELSE <<>>

HasMarketCap == "marketCap" \in DOMAIN info.v /\ info.v["marketCap"] > 0

\* the fixed list, each entry kept when its metric or field is present
TagsAsStated ==
    Keep("revenue" \in DOMAIN analysis.v, "Latest Annual Revenue")
    \o Keep("revenue_growth" \in DOMAIN analysis.v, "Revenue Growth")
    \o Keep(HasSeries(analysis.v, "gross_margin"), "Gross Margin")
    \o Keep(HasSeries(analysis.v, "operating_margin"), "Operating Margin")
    \o Keep(HasSeries(analysis.v, "net_margin"), "Net Margin")
    \o Keep(HasSeries(analysis.v, "net_margin"), "Profitability Assessment")
    \o Keep("revenue_growth" \in DOMAIN analysis.v, "Growth Assessment")
    \o Keep("sector" \in DOMAIN info.v, "Industry")
    \o Keep(HasMarketCap, "Market Capitalization")

MultiPeriodRevenue ==
    "revenue" \in DOMAIN analysis.v /\ Len(analysis.v["revenue"].v) > 1

\* the fixed list as the code filters it
TagsAmended ==
    Keep("revenue" \in DOMAIN analysis.v, "Latest Annual Revenue")
    \o Keep(MultiPeriodRevenue, "Revenue Growth")
    \o Keep(HasSeries(analysis.v, "gross_margin"), "Gross Margin")
    \o Keep(HasSeries(analysis.v, "operating_margin"), "Operating Margin")
    \o Keep(HasSeries(analysis.v, "net_margin"), "Net Margin")
    \o Keep(HasSeries(analysis.v, "net_margin"), "Profitability Assessment")
    \o Keep(MultiPeriodRevenue, "Growth Assessment")
    \o <<"Industry">>
    \o Keep(HasMarketCap, "Market Capitalization")

\* C6 as stated: the insights are the fixed list [revenue level, revenue
\* growth, gross margin, operating margin, net margin, profitability
\* bucket, growth bucket, sector, market capitalization] filtered to the
\* entries whose metric or field is present; a missing sector and a missing
\* or zero market capitalization are omitted.
C6_InsightsAreFilteredFixedList ==
    InsightsShown => TagsOf(insights) = TagsAsStated

\* C6 amended: the insights are the fixed list in its fixed order, where
\* revenue level is kept when revenue is present, revenue growth and the
\* growth bucket when revenue has more than one period, each margin when
\* its series is present, the profitability bucket when the net margin is
\* present, market capitalization when it is present and positive, and the
\* sector entry always: a missing sector is reported as "Unknown".
C6_InsightsOrderAndPresence ==
    InsightsShown
    => /\ TagsOf(insights) = TagsAmended
       /\ \A i \in WithTag("Industry") :
            insights[i].label = (IF "sector" \in DOMAIN info.v
                                 THEN info.v["sector"] ELSE "Unknown")

\* C6 witness: insights for two periods with revenue and net income, the
\* sector missing and a market capitalization of 0: six entries, the last
\* one the "Unknown" sector
C6_Witness ==
    /\ InsightsShown
    /\ MultiPeriodRevenue
    /\ HasSeries(analysis.v, "net_margin")
    /\ "sector" \notin DOMAIN info.v
    /\ "marketCap" \in DOMAIN info.v
    /\ info.v["marketCap"] = 0
    /\ Len(insights) = 6
    /\ insights[Len(insights)].label = "Unknown"

\* C7: for a non-empty free text with no preset selected the symbol is the
\* upper-cased text when that ends with .NS or .BO and the upper-cased text
\* followed by .NS otherwise; it ends with exactly one of the two suffixes
\* and resolving it again returns it unchanged.
C7_SymbolNormalization ==
    (pc = "main" /\ selected_stock = "" /\ stock_input # <<>>)
    => LET up == upper(stock_input)
       IN  /\ ~stock_symbol.isNone
           /\ (endswith(up, DotNS) \/ endswith(up, DotBO)) => stock_symbol.v = up
           /\ ~(endswith(up, DotNS) \/ endswith(up, DotBO))
                 => stock_symbol.v = up \o DotNS
           /\ endswith(stock_symbol.v, DotNS) # endswith(stock_symbol.v, DotBO)
           /\ resolve_symbol("", stock_symbol.v) = stock_symbol

\* C7 witness: a lower-case .bo suffix is kept and nothing is appended
C7_Witness ==
    /\ pc = "main"
    /\ selected_stock = ""
    /\ stock_input = <<"t", ".", "b", "o">>
    /\ stock_symbol = Some(<<"T", ".", "B", "O">>)

\* the fetch has been made and raised
FetchFailed == fetch_calls > 0 /\ stock.isNone

\* the fetch has been made and raised nothing
FetchSucceeded == fetch_calls > 0 /\ ~stock.isNone

\* C8: a run whose fetch raises nothing and whose annual statement is empty
\* or missing ends with the no-financial-data message and without the
\* unable-to-fetch message, whatever the metadata record contains.
C8_EmptyStatementIsNotFetchError ==
    (pc = "done" /\ FetchSucceeded /\ ~has_financials(financials))
    => /\ Shown("warning: No financial data available")
       /\ ~Shown("error: Unable to fetch stock data")

RenderedItems ==
    {"header", "metrics", "chart", "insights", "table",
     "warning: Insufficient financial data for visualization",
     "warning: Unable to analyze financial data",
     "warning: No financial data available"}

FetchFailedSafe ==
    FetchFailed
    => /\ fetch_calls = 1
       /\ analyze_calls = 0
       /\ analysis.isNone
       /\ insights = <<>>
       /\ \A i \in DOMAIN output : output[i] \notin RenderedItems
       /\ Shown("error: Error fetching data")
       /\ pc = "done" => /\ Shown("error: Unable to fetch stock data")
                         /\ output[Len(output)] = "footer"
       /\ pc # "done" => ENABLED Next

\* position of the run in the script
Rank(p) ==
    CASE p = "start" -> 0
      [] p = "main" -> 1
      [] p = "fetched" -> 2
      [] p = "financials" -> 3
      [] p = "analyzed" -> 4
      [] p = "footer" -> 5
      [] OTHER -> 6

\* C9: in a run whose fetch fails the fetch is made exactly once, no
\* metrics are computed, no header, chart, insight or table is rendered, and
\* the run terminates having displayed an error message: until its last
\* line it always has a next step, and every step moves it forward.
C9_FetchFailureEndsInError ==
    /\ []FetchFailedSafe
    /\ [][FetchFailed' => Rank(pc') > Rank(pc)]_vars

\* C9 witness: a finished run whose fetch failed
C9_Witness ==
    /\ pc = "done"
    /\ FetchFailed
    /\ output = <<"title", "error: Error fetching data",
                  "error: Unable to fetch stock data", "footer">>

NoInput == selected_stock = "" /\ stock_input = <<>>

IsPrefix(p, q) == Len(p) <= Len(q) /\ SubSeq(q, 1, Len(p)) = p

\* C10: with no preset and an empty text no symbol is resolved, the fetch
\* is never made, no metrics are computed and the output is the title, the
\* guidance text and the footer; the fetch is made only with a symbol.
C10_NoInputNoFetch ==
    /\ (NoInput /\ pc # "start")
       => /\ stock_symbol.isNone
          /\ fetch_calls = 0
          /\ analyze_calls = 0
          /\ analysis.isNone
          /\ insights = <<>>
          /\ IsPrefix(output, <<"title", "guidance", "footer">>)
          /\ pc = "done" => output = <<"title", "guidance", "footer">>
    /\ fetch_calls > 0 => ~stock_symbol.isNone

\* C10 witness: a finished run without any input
C10_Witness ==
    /\ NoInput
    /\ pc = "done"
    /\ fetch_calls = 0
    /\ output = <<"title", "guidance", "footer">>

====
